---------------------------- MODULE Spec2Model ----------------------------
(***************************************************************************)
(* The WebSocket <-> PTY bridge of server/src/main.rs (handle_terminal):   *)
(* the handshake and PTY set-up, the PTY reader thread with its flow gate, *)
(* the sender task (adaptive batching and TTY scraping), the receiver task *)
(* and the teardown of the handler, for the sessions in Sessions, around   *)
(* the process-wide client_tty registry.                                   *)
(*                                                                         *)
(* Bytes are integers 0..255, byte strings are sequences of bytes.         *)
(* Every lock acquisition of the code is one atomic step; code between     *)
(* two acquisitions that touches only task-local data is merged into the   *)
(* step before it.                                                         *)
(***************************************************************************)
EXTENDS Integers, Sequences, FiniteSets, TLC

\* ------------------------------------------------------------------ bounds
\* PTY reads that return data, per session.
MaxReads == 2
\* PTY reads that return data in the specification of frame sizes, where
\* a third chunk is what the threshold keeps out of a frame.
MaxBurst == 3
\* Bytes of terminal input the client sends, per session.
MaxInput == 4
\* The model's scale of the reader's 32768-byte buffer (main.rs:298) and of
\* the 32768-byte flush threshold (main.rs:391): both are the same number in
\* the code, and the model keeps them equal.
BufScale == 24

Sessions == {1, 2}
\* The session the single-connection specification runs.
Solo == {1}

\* ------------------------------------------------------- program constants
OUTPUT == 48
INPUT == 48
RESIZE == 49
PAUSE == 50
RESUME == 51
ESC == 27
BACKSLASH == 92
DefaultCols == 80
DefaultRows == 24

\* Option<String>::None; a published path is never empty.
None == << >>

\* "]7337;"
Marker == <<93, 55, 51, 51, 55, 59>>
\* "/dev/pts/"
PtsPrefix == <<47, 100, 101, 118, 47, 112, 116, 115, 47>>
Pts7 == <<47, 100, 101, 118, 47, 112, 116, 115, 47, 55>>
Pts8 == <<47, 100, 101, 118, 47, 112, 116, 115, 47, 56>>

\* ------------------------------------------------------------ byte strings
Min(a, b) == IF a < b THEN a ELSE b
Max(a, b) == IF a > b THEN a ELSE b

\* s[from..] of Rust, with a 1-based first index.
From(s, i) == SubSeq(s, i, Len(s))

IsPrefix(p, s) == Len(p) <= Len(s) /\ SubSeq(s, 1, Len(p)) = p

\* str::find: the 1-based index of the first occurrence of pat in s, 0 if none.
Find(s, pat) ==
    LET hits == {i \in 1..(Len(s) - Len(pat) + 1) : SubSeq(s, i, i + Len(pat) - 1) = pat}
    IN  IF hits = {} THEN 0 ELSE CHOOSE i \in hits : \A j \in hits : i <= j

\* str::trim_end_matches(c): every trailing c removed.
RECURSIVE TrimEnd(_, _)
TrimEnd(s, c) ==
    IF Len(s) > 0 /\ s[Len(s)] = c THEN TrimEnd(SubSeq(s, 1, Len(s) - 1), c) ELSE s

RECURSIVE Concat(_)
Concat(ss) == IF ss = << >> THEN << >> ELSE Head(ss) \o Concat(Tail(ss))

\* std::str::from_utf8(..).is_ok(): well-formed UTF-8 (Unicode table 3-7).
IsCont(b) == b >= 128 /\ b <= 191
RECURSIVE ValidUtf8(_)
ValidUtf8(s) ==
    IF s = << >> THEN TRUE
    ELSE LET b == s[1]
             n == Len(s)
         IN  IF b < 128 THEN ValidUtf8(From(s, 2))
             ELSE IF b >= 194 /\ b <= 223
                  THEN n >= 2 /\ IsCont(s[2]) /\ ValidUtf8(From(s, 3))
             ELSE IF b >= 224 /\ b <= 239
                  THEN /\ n >= 3
                       /\ IsCont(s[2]) /\ IsCont(s[3])
                       /\ (b = 224 => s[2] >= 160)
                       /\ (b = 237 => s[2] <= 159)
                       /\ ValidUtf8(From(s, 4))
             ELSE IF b >= 240 /\ b <= 244
                  THEN /\ n >= 4
                       /\ IsCont(s[2]) /\ IsCont(s[3]) /\ IsCont(s[4])
                       /\ (b = 240 => s[2] >= 144)
                       /\ (b = 244 => s[2] <= 143)
                       /\ ValidUtf8(From(s, 5))
             ELSE FALSE

\* The scan without starts_with("/dev/pts/").
ScanTtyAnyPath(bytes) ==
    IF ~ValidUtf8(bytes) THEN None
    ELSE LET pos == Find(bytes, Marker)
         IN  IF pos = 0 THEN None
             ELSE LET after == From(bytes, pos + 6)
                      end == Find(after, <<BACKSLASH>>)
                  IN  IF end = 0 THEN None
                      ELSE TrimEnd(SubSeq(after, 1, end - 1), ESC)
\* The scan of one chunk for the TTY announce (the same code twice, at
\* main.rs:344-349 and 372-377): the path to publish, or None.
ScanTty(bytes) ==
    IF ~ValidUtf8(bytes) THEN None
    ELSE LET pos == Find(bytes, Marker)
         IN  IF pos = 0 THEN None
             ELSE LET after == From(bytes, pos + 6)
                      end == Find(after, <<BACKSLASH>>)
                  IN  IF end = 0 THEN None
                      ELSE LET tty == TrimEnd(SubSeq(after, 1, end - 1), ESC)
                           IN  IF IsPrefix(PtsPrefix, tty) THEN tty ELSE None

\* printf '\033]7337;%s\033\\' "$(tty)" of the wrapper script.
Announce(path) == <<ESC>> \o Marker \o path \o <<ESC, BACKSLASH>>


\* ------------------------------------------------------------------- JSON
\* serde_json on the documents the model's clients send: what the text
\* decodes to.  A text outside the table is not JSON.
\* {"columns":40,"rows":12}
JsonSmall == <<123, 34, 99, 111, 108, 117, 109, 110, 115, 34, 58, 52, 48, 44, 34, 114, 111, 119, 115, 34, 58, 49, 50, 125>>
\* {"AuthToken":"","columns":120,"rows":30}
JsonAuth == <<123, 34, 65, 117, 116, 104, 84, 111, 107, 101, 110, 34, 58, 34, 34, 44, 34, 99, 111, 108, 117, 109, 110, 115, 34, 58, 49, 50, 48, 44, 34, 114, 111, 119, 115, 34, 58, 51, 48, 125>>
\* {"columns":40}
JsonNoRows == <<123, 34, 99, 111, 108, 117, 109, 110, 115, 34, 58, 52, 48, 125>>
\* {"columns":70000,"rows":0}
JsonWide == <<123, 34, 99, 111, 108, 117, 109, 110, 115, 34, 58, 55, 48, 48, 48, 48, 44, 34, 114, 111, 119, 115, 34, 58, 48, 125>>
\* {"columns":65536,"rows":24}
JsonWrap == <<123, 34, 99, 111, 108, 117, 109, 110, 115, 34, 58, 54, 53, 53, 51, 54, 44, 34, 114, 111, 119, 115, 34, 58, 50, 52, 125>>
\* {"columns":"40","rows":12}
JsonTyped == <<123, 34, 99, 111, 108, 117, 109, 110, 115, 34, 58, 34, 52, 48, 34, 44, 34, 114, 111, 119, 115, 34, 58, 49, 50, 125>>
\* not json
NotJson == <<110, 111, 116, 32, 106, 115, 111, 110>>

\* The object a text decodes to: the set of its integer fields (a field of
\* another type is no integer field), or no object.
JsonFields(text) ==
    CASE text = JsonSmall  -> [isObj |-> TRUE, f |-> {<<"columns", 40>>, <<"rows", 12>>}]
      [] text = JsonAuth   -> [isObj |-> TRUE, f |-> {<<"columns", 120>>, <<"rows", 30>>}]
      [] text = JsonNoRows -> [isObj |-> TRUE, f |-> {<<"columns", 40>>}]
      [] text = JsonWide   -> [isObj |-> TRUE, f |-> {<<"columns", 70000>>, <<"rows", 0>>}]
      [] text = JsonWrap   -> [isObj |-> TRUE, f |-> {<<"columns", 65536>>, <<"rows", 24>>}]
      [] text = JsonTyped  -> [isObj |-> TRUE, f |-> {<<"rows", 12>>}]
      [] OTHER             -> [isObj |-> FALSE, f |-> {}]

\* Whether v fits an unsigned integer of `bits` bits.  The numbers of the
\* table are below 2^31, so each fits 32 bits.
Fits(v, bits) == v >= 0 /\ (bits = 16 => v <= 65535)
HasField(j, k, bits) == \E p \in j.f : p[1] = k /\ Fits(p[2], bits)
Field(j, k) == (CHOOSE p \in j.f : p[1] = k)[2]

\* serde_json::from_str::<InitMessage>: columns and rows are u32.
InitMessage(text) ==
    LET j == JsonFields(text)
    IN  IF j.isObj /\ HasField(j, "columns", 32) /\ HasField(j, "rows", 32)
        THEN [ok |-> TRUE, columns |-> Field(j, "columns"), rows |-> Field(j, "rows")]
        ELSE [ok |-> FALSE, columns |-> 0, rows |-> 0]

\* serde_json::from_str::<ResizeMessage>: columns and rows are u16.
ResizeMessage(text) ==
    LET j == JsonFields(text)
    IN  IF j.isObj /\ HasField(j, "columns", 16) /\ HasField(j, "rows", 16)
        THEN [ok |-> TRUE, columns |-> Field(j, "columns"), rows |-> Field(j, "rows")]
        ELSE [ok |-> FALSE, columns |-> 0, rows |-> 0]

\* A WebSocket message, or the end of the stream (None, or Some(Err)).
Msg(kind, data) == [kind |-> kind, data |-> data]
StreamEnd == Msg("End", << >>)
CloseMsg == Msg("Close", << >>)

\* x as u16
AsU16(x) == x % 65536

\* The parse that takes a text message only.
parse_init_text_only(msg) ==
    IF msg.kind = "Text" /\ InitMessage(msg.data).ok
    THEN <<AsU16(Max(InitMessage(msg.data).columns, 1)), AsU16(Max(InitMessage(msg.data).rows, 1))>>
    ELSE <<DefaultCols, DefaultRows>>

parse_init_message(msg) ==
    IF msg.kind \notin {"Text", "Binary"} THEN <<DefaultCols, DefaultRows>>
    ELSE IF ValidUtf8(msg.data) /\ InitMessage(msg.data).ok
         THEN LET init == InitMessage(msg.data)
              IN  <<AsU16(Max(init.columns, 1)), AsU16(Max(init.rows, 1))>>
         ELSE <<DefaultCols, DefaultRows>>

\* ------------------------------------------------------------------ state
VARIABLES
    clientTty,    \* state.client_tty: the process-wide registry
    detachLog,    \* the tmux detach-client commands run: {[s, tty]}
    detachFailed, \* the sessions whose detach command returned Err
    lockPc,       \* each thread's and task's position in its lock operations
    owner,        \* each mutex's holder
    supPc,        \* handle_terminal's position, per session: "no_init",
                  \* "failed" and "ended" are its returns at main.rs:215,
                  \* at 243, 262, 274 or 281, and at 545
    firstMsg,     \* what the handshake's ws_receiver.next() yielded
    initSize,     \* (init_cols, init_rows)
    ptySize,      \* the size of the PTY master, <<0, 0>> before it is open
    cleanupTty,   \* cleanup_tty, the handler's copy of connection_tty
    sweepSaw,     \* the registry as the handler's sweep found it
    rpc,          \* the reader thread's position
    paused,       \* the flag of the flow gate
    notified,     \* a notify_one has reached the waiting reader
    nReads,       \* PTY reads that returned data
    chan,         \* the unbounded channel reader -> sender task
    childOut,     \* every byte read from the PTY so far
    pumpPc,       \* the sender task's position
    buffer,       \* its BytesMut
    cur,          \* the chunk it is publishing the path of, else << >>
    ttyDetected,  \* its tty_detected
    connTty,      \* connection_tty
    frames,       \* the binary frames delivered to the socket
    wsFailed,     \* a send on the socket has failed
    late,         \* the deadline of the sender task's iteration is past
    regWrites,    \* how often the session's sender task wrote clientTty
    rtPc,         \* the receiver task's position
    lastIn,       \* what its latest ws_receiver.next() yielded
    prevIn,       \* and the one before it, if both are bare 0x32 or 0x33 frames
    ptyWritten,   \* every byte handed to the PTY writer
    inputSeen,    \* the payloads of the inbound 0x30 frames, as they arrived
    wake,         \* how the reader's latest gate wait ended
    mark,         \* the number of frames sent when the latest pause was handled
    armed         \* "off", or a pause was handled and neither a resume, a
                  \* gate timeout nor the teardown's release came after
                  \* it: "quiet" if at that pause the reader was waiting on
                  \* the gate and no byte was on its way to the socket,
                  \* else "inflight"

globals == <<clientTty, detachLog, detachFailed>>
supVars == <<supPc, firstMsg, initSize, ptySize, cleanupTty, sweepSaw>>
gateVars == <<paused, notified, wake, armed, mark>>
readerVars == <<rpc, nReads, chan, childOut>>
pumpVars == <<pumpPc, buffer, cur, ttyDetected, connTty, frames, wsFailed, regWrites, late>>
routerVars == <<rtPc, lastIn, prevIn, ptyWritten, inputSeen>>
lockVars == <<lockPc, owner>>
vars == <<globals, supVars, gateVars, readerVars, pumpVars, routerVars, lockVars>>

\* ------------------------------------------------ the mutexes, lock by lock
\* The session's thread and tasks, and a REST handler reading the registry.
Threads == ({"reader", "pump", "router", "sup"} \X Solo) \cup {<<"rest", 0>>}
\* pty_writer, master, paused and connection_tty of the session, and
\* state.client_tty.
Locks == ({"writer", "master", "gate", "conn"} \X Solo) \cup {<<"registry", 0>>}
NoThread == <<"none", 0>>
LockOf(t, name) == IF name = "registry" THEN <<"registry", 0>> ELSE <<name, t[2]>>

\* One operation of a code path: lock() on a mutex, the drop of its guard,
\* Condvar::wait_timeout on it (the guard is given up and taken again), an
\* .await, or a blocking call.
Op(k, l) == [k |-> k, l |-> l]
Await == Op("await", "")
Block == Op("block", "")

\* The reader's loop: the gate block with the flag clear or set, then the
\* read.
ReaderArms ==
    << <<Op("lock", "gate"), Op("unlock", "gate"), Block>>,
       <<Op("lock", "gate"), Op("wait", "gate"), Op("lock", "gate"), Op("unlock", "gate"), Block>> >>

\* A sender task that takes connection_tty inside the registry's block.
PumpArmsNested ==
    << <<Await, Op("lock", "registry"), Op("lock", "conn"), Op("unlock", "conn"),
         Op("unlock", "registry"), Await>>,
       <<Await, Await>> >>
\* The sender task: recv().await, for an announce the two lock blocks one
\* after the other, and the select or the send; or no lock at all.
PumpArms ==
    << <<Await, Op("lock", "registry"), Op("unlock", "registry"),
         Op("lock", "conn"), Op("unlock", "conn"), Await>>,
       <<Await, Await>> >>

\* A receiver task whose writer guard lives until after the next message.
RouterArmsGuardKept ==
    << <<Op("lock", "writer"), Block, Await, Op("unlock", "writer")>>,
       <<Await, Op("lock", "master"), Op("unlock", "master")>>,
       <<Await, Op("lock", "gate"), Op("unlock", "gate")>>,
       <<Await>> >>
\* The receiver task: next().await, then the arm of the message: the
\* writer (write_all and flush block inside it), the master, the gate, or
\* nothing.
RouterArms ==
    << <<Await, Op("lock", "writer"), Block, Op("unlock", "writer")>>,
       <<Await, Op("lock", "master"), Op("unlock", "master")>>,
       <<Await, Op("lock", "gate"), Op("unlock", "gate")>>,
       <<Await>> >>

\* The handler from its select on: the gate, connection_tty, the detach
\* command and the sleep, the registry.
SupArms ==
    << <<Await, Op("lock", "gate"), Op("unlock", "gate"),
         Op("lock", "conn"), Op("unlock", "conn"), Block,
         Op("lock", "registry"), Op("unlock", "registry")>> >>

\* get_client_tty_from_state of a REST handler, then its fallbacks.
RestArms == << <<Op("lock", "registry"), Op("unlock", "registry"), Block>> >>

Arms(t) ==
    CASE t[1] = "reader" -> ReaderArms
      [] t[1] = "pump"   -> PumpArms
      [] t[1] = "router" -> RouterArms
      [] t[1] = "sup"    -> SupArms
      [] OTHER           -> RestArms

\* Between two code paths, and after the handler's only one.
Top == <<0, 0>>
Returned == <<0, 1>>

Init ==
    /\ clientTty = None
    /\ detachLog = {}
    /\ detachFailed = {}
    /\ lockPc = [t \in Threads |-> Top]
    /\ owner = [l \in Locks |-> NoThread]
    /\ supPc = [s \in Sessions |-> "handshake"]
    /\ firstMsg = [s \in Sessions |-> Msg("None", << >>)]
    /\ initSize = [s \in Sessions |-> <<0, 0>>]
    /\ ptySize = [s \in Sessions |-> <<0, 0>>]
    /\ cleanupTty = [s \in Sessions |-> None]
    /\ sweepSaw = [s \in Sessions |-> None]
    /\ rpc = [s \in Sessions |-> "idle"]
    /\ paused = [s \in Sessions |-> FALSE]
    /\ notified = [s \in Sessions |-> FALSE]
    /\ wake = [s \in Sessions |-> "none"]
    /\ armed = [s \in Sessions |-> "off"]
    /\ mark = [s \in Sessions |-> 0]
    /\ nReads = [s \in Sessions |-> 0]
    /\ chan = [s \in Sessions |-> << >>]
    /\ childOut = [s \in Sessions |-> << >>]
    /\ pumpPc = [s \in Sessions |-> "idle"]
    /\ buffer = [s \in Sessions |-> << >>]
    /\ cur = [s \in Sessions |-> << >>]
    /\ ttyDetected = [s \in Sessions |-> FALSE]
    /\ connTty = [s \in Sessions |-> None]
    /\ frames = [s \in Sessions |-> << >>]
    /\ wsFailed = [s \in Sessions |-> FALSE]
    /\ late = [s \in Sessions |-> FALSE]
    /\ regWrites = [s \in Sessions |-> 0]
    /\ rtPc = [s \in Sessions |-> "idle"]
    /\ lastIn = [s \in Sessions |-> Msg("None", << >>)]
    /\ prevIn = [s \in Sessions |-> Msg("None", << >>)]
    /\ ptyWritten = [s \in Sessions |-> << >>]
    /\ inputSeen = [s \in Sessions |-> << >>]

\* ------------------------------------------------- handshake and PTY set-up
\* "Error: Failed to open PTY: "
ErrOpenPty == <<69, 114, 114, 111, 114, 58, 32, 70, 97, 105, 108, 101, 100, 32, 116, 111, 32, 111, 112, 101, 110, 32, 80, 84, 89, 58, 32>>
\* "Error: Failed to spawn shell: "
ErrSpawn == <<69, 114, 114, 111, 114, 58, 32, 70, 97, 105, 108, 101, 100, 32, 116, 111, 32, 115, 112, 97, 119, 110, 32, 115, 104, 101, 108, 108, 58, 32>>
CRLF == <<13, 10>>

\* format!("\x30Error: Failed to ...: {}\r\n", e)
ErrorFrame(what, e) == <<OUTPUT>> \o what \o e \o CRLF

\* The handshake that also treats its message as terminal traffic.
HandshakeRouted(s, msg) ==
    /\ supPc[s] = "handshake"
    /\ firstMsg' = [firstMsg EXCEPT ![s] = msg]
    /\ IF msg.kind = "End"
       THEN /\ supPc' = [supPc EXCEPT ![s] = "no_init"]
            /\ UNCHANGED initSize
       ELSE /\ supPc' = [supPc EXCEPT ![s] = "setup"]
            /\ initSize' = [initSize EXCEPT ![s] = parse_init_message(msg)]
    /\ ptyWritten' = [ptyWritten EXCEPT ![s] =
          IF msg.kind = "Binary" /\ msg.data # << >> /\ msg.data[1] = INPUT
          THEN @ \o Tail(msg.data) ELSE @]
    /\ paused' = [paused EXCEPT ![s] =
          IF msg.kind = "Binary" /\ msg.data # << >> /\ msg.data[1] = PAUSE THEN TRUE ELSE @]
    /\ UNCHANGED <<lockVars, globals, ptySize, cleanupTty, sweepSaw, notified, wake, armed, mark,
                   readerVars, pumpVars, rtPc, lastIn, prevIn, inputSeen>>

\* ws_receiver.next().await of the handshake, with what arrived.
Handshake(s, msg) ==
    /\ supPc[s] = "handshake"
    /\ firstMsg' = [firstMsg EXCEPT ![s] = msg]
    /\ IF msg.kind = "End"
       THEN /\ supPc' = [supPc EXCEPT ![s] = "no_init"]
            /\ UNCHANGED initSize
       ELSE /\ supPc' = [supPc EXCEPT ![s] = "setup"]
            /\ initSize' = [initSize EXCEPT ![s] = parse_init_message(msg)]
    /\ UNCHANGED <<lockVars, globals, ptySize, cleanupTty, sweepSaw, gateVars, readerVars, pumpVars,
                   routerVars>>

SetupOutcomes == {"ok", "open_failed", "spawn_failed", "clone_failed", "writer_failed"}

\* Steps 2 to 4 of handle_terminal: the wrapper script, openpty, spawn, the
\* reader and the writer, then the thread and the two tasks.  `outcome` is
\* what the PTY system answers, `e` the text of its error, `sent` whether
\* the socket took the diagnostic frame.
Setup(s, outcome, e, sent) ==
    /\ supPc[s] = "setup"
    /\ CASE outcome = "ok" ->
              /\ supPc' = [supPc EXCEPT ![s] = "running"]
              /\ ptySize' = [ptySize EXCEPT ![s] = initSize[s]]
              /\ rpc' = [rpc EXCEPT ![s] = "gate"]
              /\ pumpPc' = [pumpPc EXCEPT ![s] = "recv"]
              /\ rtPc' = [rtPc EXCEPT ![s] = "recv"]
              /\ UNCHANGED <<frames, wsFailed, late>>
         [] outcome \in {"open_failed", "spawn_failed"} ->
              /\ supPc' = [supPc EXCEPT ![s] = "failed"]
              /\ frames' = [frames EXCEPT ![s] =
                    IF sent
                    THEN Append(@, ErrorFrame(IF outcome = "open_failed"
                                              THEN ErrOpenPty ELSE ErrSpawn, e))
                    ELSE @]
              /\ wsFailed' = [wsFailed EXCEPT ![s] = ~sent]
              /\ UNCHANGED late
              /\ UNCHANGED <<ptySize, rpc, pumpPc, rtPc>>
         [] OTHER ->
              /\ supPc' = [supPc EXCEPT ![s] = "failed"]
              /\ UNCHANGED <<ptySize, rpc, pumpPc, rtPc, frames, wsFailed, late>>
    /\ UNCHANGED <<lockVars, globals, firstMsg, initSize, cleanupTty, sweepSaw, gateVars, nReads, chan, childOut,
                   buffer, cur, ttyDetected, connTty, regWrites, lastIn, prevIn,
                   ptyWritten, inputSeen>>

\* -------------------------------------------------------- PTY reader thread
\* The sender of the channel is dropped when the reader thread returns, the
\* receiver when the sender task returns.
TxClosed(s) == rpc[s] = "done"
RxClosed(s) == pumpPc[s] = "done"

\* The gate check at the top of the reader's loop: with the flag set the
\* thread enters wait_timeout (which releases the mutex), else it reads.
ReaderGate(s) ==
    /\ rpc[s] = "gate"
    /\ rpc' = [rpc EXCEPT ![s] = IF paused[s] THEN "wait" ELSE "read"]
    /\ wake' = [wake EXCEPT ![s] = "none"]
    /\ UNCHANGED <<lockVars, globals, supVars, paused, notified, armed, mark, nReads, chan, childOut,
                   pumpVars, routerVars>>

\* wait_timeout returns because of a notify_one.  The thread holds the
\* mutex again and looks at the flag as it is now: if it is set (a pause
\* came after the resume that notified), the thread clears it.
ReaderNotified(s) ==
    /\ rpc[s] = "wait"
    /\ notified[s]
    /\ paused' = [paused EXCEPT ![s] = FALSE]
    /\ notified' = [notified EXCEPT ![s] = FALSE]
    /\ wake' = [wake EXCEPT ![s] = "notified"]
    /\ rpc' = [rpc EXCEPT ![s] = "read"]
    /\ UNCHANGED <<lockVars, globals, supVars, armed, mark, nReads, chan, childOut, pumpVars, routerVars>>

\* The timeout that leaves the flag as it is.
ReaderTimeoutKeepsFlag(s) ==
    /\ rpc[s] = "wait"
    /\ notified' = [notified EXCEPT ![s] = FALSE]
    /\ wake' = [wake EXCEPT ![s] = "timeout"]
    /\ armed' = [armed EXCEPT ![s] = "off"]
    /\ UNCHANGED mark
    /\ rpc' = [rpc EXCEPT ![s] = "read"]
    /\ UNCHANGED <<lockVars, globals, supVars, paused, nReads, chan, childOut, pumpVars, routerVars>>

\* wait_timeout returns because the 2 s passed: the flag is forced false.
ReaderTimeout(s) ==
    /\ rpc[s] = "wait"
    /\ paused' = [paused EXCEPT ![s] = FALSE]
    /\ notified' = [notified EXCEPT ![s] = FALSE]
    /\ wake' = [wake EXCEPT ![s] = "timeout"]
    /\ armed' = [armed EXCEPT ![s] = "off"]
    /\ UNCHANGED mark
    /\ rpc' = [rpc EXCEPT ![s] = "read"]
    /\ UNCHANGED <<lockVars, globals, supVars, nReads, chan, childOut, pumpVars, routerVars>>

\* pty_reader.read returns Ok(n), n > 0, and the chunk goes to the channel;
\* the thread returns when the receiver is gone.
ReadUpTo(s, chunk, n) ==
    /\ rpc[s] = "read"
    /\ nReads[s] < n
    /\ Len(chunk) >= 1
    /\ Len(chunk) <= BufScale
    /\ nReads' = [nReads EXCEPT ![s] = @ + 1]
    /\ childOut' = [childOut EXCEPT ![s] = @ \o chunk]
    /\ IF RxClosed(s)
       THEN /\ rpc' = [rpc EXCEPT ![s] = "done"]
            /\ UNCHANGED chan
       ELSE /\ rpc' = [rpc EXCEPT ![s] = "gate"]
            /\ chan' = [chan EXCEPT ![s] = Append(@, chunk)]
    /\ UNCHANGED <<lockVars, globals, supVars, gateVars, pumpVars, routerVars>>

\* The read of a child that prints at most MaxReads chunks.
ReaderRead(s, chunk) == ReadUpTo(s, chunk, MaxReads)

\* pty_reader.read returns Ok(0) or Err: the child has exited and the slave
\* side is closed.  Nothing the handler does ends a pending read: pty_reader
\* is the thread's own descriptor of the master (try_clone_reader), which
\* stays open while the thread lives, whatever else is dropped.
ReaderEof(s) ==
    /\ rpc[s] = "read"
    /\ rpc' = [rpc EXCEPT ![s] = "done"]
    /\ UNCHANGED <<lockVars, globals, supVars, gateVars, nReads, chan, childOut, pumpVars, routerVars>>

\* ------------------------------------------------------------- sender task
\* The frame without its opcode byte.
FrameBare(payload) == payload
\* frame.push(0x30); frame.extend_from_slice(&buffer)
Frame(payload) == <<OUTPUT>> \o payload

\* An inner loop that only the deadline ends.
OverThresholdNever(b) == FALSE
\* buffer.len() > 32768
OverThreshold(b) == Len(b) > BufScale

\* The buffer replaced by the chunk instead of extended.
ExtendLossy(buf, bytes) == bytes
\* buffer.extend_from_slice(&bytes)
Extend(buf, bytes) == buf \o bytes

\* The publication without the test of tty_detected.
ShouldPublishAgain(detected, tty) == tty # None
\* The guards around the publication: tty_detected is false and the scan
\* gave a path.
ShouldPublish(detected, tty) == ~detected /\ tty # None

\* The store that keeps a different path already in the registry.
PublishedIfEmpty(old, tty) == IF old = None \/ old = tty THEN tty ELSE old
\* *lock = Some(tty.to_string()) on the registry: its value afterwards.
Published(old, tty) == tty

\* What the sender task does with a chunk it has taken from the channel, up
\* to its write of the registry.  `inner` says the chunk came in the inner
\* (coalescing) loop, where the threshold is tested after the append.
TakeChunk(s, inner) ==
    LET bytes == Head(chan[s])
        tty == ScanTty(bytes)
    IN  /\ chan' = [chan EXCEPT ![s] = Tail(@)]
        /\ IF ShouldPublish(ttyDetected[s], tty)
           THEN /\ clientTty' = Published(clientTty, tty)
                /\ cur' = [cur EXCEPT ![s] = bytes]
                /\ regWrites' = [regWrites EXCEPT ![s] = @ + 1]
                /\ pumpPc' = [pumpPc EXCEPT ![s] = IF inner THEN "conn_more" ELSE "conn_first"]
                /\ UNCHANGED buffer
           ELSE /\ buffer' = [buffer EXCEPT ![s] = Extend(@, bytes)]
                /\ pumpPc' = [pumpPc EXCEPT ![s] =
                      IF inner /\ OverThreshold(Extend(buffer[s], bytes))
                      THEN "send" ELSE "coalesce"]
                /\ UNCHANGED <<lockVars, clientTty, regWrites, cur>>

\* output_rx.recv() at the top of the loop yields a chunk.
PumpRecvFirst(s) ==
    /\ pumpPc[s] = "recv"
    /\ chan[s] # << >>
    /\ TakeChunk(s, FALSE)
    /\ UNCHANGED <<lockVars, detachLog, detachFailed, supVars, gateVars, rpc, nReads, childOut,
                   ttyDetected, connTty, frames, wsFailed, late, routerVars>>

\* output_rx.recv() at the top of the loop yields None: the residual buffer
\* is sent, and the task ends.
PumpClosedFirst(s, sent) ==
    /\ pumpPc[s] = "recv"
    /\ chan[s] = << >>
    /\ TxClosed(s)
    /\ frames' = [frames EXCEPT ![s] =
          IF buffer[s] # << >> /\ sent THEN Append(@, Frame(buffer[s])) ELSE @]
    /\ wsFailed' = [wsFailed EXCEPT ![s] = @ \/ (buffer[s] # << >> /\ ~sent)]
    /\ UNCHANGED late
    /\ pumpPc' = [pumpPc EXCEPT ![s] = "done"]
    /\ UNCHANGED <<lockVars, globals, supVars, gateVars, readerVars, buffer, cur, ttyDetected,
                   connTty, regWrites, routerVars>>

\* The second lock block without `tty_detected = true` after it.
PumpConnNoLatch(s) ==
    /\ pumpPc[s] \in {"conn_first", "conn_more"}
    /\ connTty' = [connTty EXCEPT ![s] = ScanTty(cur[s])]
    /\ UNCHANGED ttyDetected
    /\ buffer' = [buffer EXCEPT ![s] = Extend(@, cur[s])]
    /\ cur' = [cur EXCEPT ![s] = << >>]
    /\ pumpPc' = [pumpPc EXCEPT ![s] =
          IF pumpPc[s] = "conn_more" /\ OverThreshold(Extend(buffer[s], cur[s]))
          THEN "send" ELSE "coalesce"]
    /\ UNCHANGED <<lockVars, globals, supVars, gateVars, readerVars, frames, wsFailed, late, regWrites,
                   routerVars>>

\* The write of connection_tty after the write of the registry, then the
\* latch and the append of the chunk.
PumpConn(s) ==
    /\ pumpPc[s] \in {"conn_first", "conn_more"}
    /\ connTty' = [connTty EXCEPT ![s] = ScanTty(cur[s])]
    /\ ttyDetected' = [ttyDetected EXCEPT ![s] = TRUE]
    /\ buffer' = [buffer EXCEPT ![s] = Extend(@, cur[s])]
    /\ cur' = [cur EXCEPT ![s] = << >>]
    /\ pumpPc' = [pumpPc EXCEPT ![s] =
          IF pumpPc[s] = "conn_more" /\ OverThreshold(Extend(buffer[s], cur[s]))
          THEN "send" ELSE "coalesce"]
    /\ UNCHANGED <<lockVars, globals, supVars, gateVars, readerVars, frames, wsFailed, late, regWrites,
                   routerVars>>

\* The biased select of the inner loop: recv() yields a chunk.
PumpRecvMore(s) ==
    /\ pumpPc[s] = "coalesce"
    /\ chan[s] # << >>
    /\ TakeChunk(s, TRUE)
    /\ UNCHANGED <<lockVars, detachLog, detachFailed, supVars, gateVars, rpc, nReads, childOut,
                   ttyDetected, connTty, frames, wsFailed, late, routerVars>>

\* The inner loop's None arm returning without its send.
PumpClosedMoreSilent(s, sent) ==
    /\ pumpPc[s] = "coalesce"
    /\ chan[s] = << >>
    /\ TxClosed(s)
    /\ pumpPc' = [pumpPc EXCEPT ![s] = "done"]
    /\ UNCHANGED <<lockVars, globals, supVars, gateVars, readerVars, buffer, cur, ttyDetected,
                   connTty, frames, wsFailed, late, regWrites, routerVars>>

\* The biased select of the inner loop: recv() yields None; the buffer is
\* sent, whatever the socket answers, and the task returns.
PumpClosedMore(s, sent) ==
    /\ pumpPc[s] = "coalesce"
    /\ chan[s] = << >>
    /\ TxClosed(s)
    /\ frames' = [frames EXCEPT ![s] =
          IF buffer[s] # << >> /\ sent THEN Append(@, Frame(buffer[s])) ELSE @]
    /\ wsFailed' = [wsFailed EXCEPT ![s] = @ \/ (buffer[s] # << >> /\ ~sent)]
    /\ UNCHANGED late
    /\ pumpPc' = [pumpPc EXCEPT ![s] = "done"]
    /\ UNCHANGED <<lockVars, globals, supVars, gateVars, readerVars, buffer, cur, ttyDetected,
                   connTty, regWrites, routerVars>>

\* The biased select of the inner loop: recv() is pending and the deadline
\* has come.
PumpDeadline(s) ==
    /\ pumpPc[s] = "coalesce"
    /\ chan[s] = << >>
    /\ ~TxClosed(s)
    /\ pumpPc' = [pumpPc EXCEPT ![s] = "send"]
    /\ UNCHANGED <<lockVars, globals, supVars, gateVars, readerVars, buffer, cur, ttyDetected,
                   connTty, frames, wsFailed, late, regWrites, routerVars>>

\* The deadline of the iteration passes while the task is in its inner
\* loop: sleep_until(deadline) is ready from now on.
DeadlinePasses(s) ==
    /\ pumpPc[s] = "coalesce"
    /\ ~late[s]
    /\ late' = [late EXCEPT ![s] = TRUE]
    /\ UNCHANGED <<lockVars, globals, supVars, gateVars, readerVars, pumpPc, buffer, cur, ttyDetected,
                   connTty, frames, wsFailed, regWrites, routerVars>>

\* The frame after the inner loop: a failed send ends the task.
PumpSend(s, sent) ==
    /\ pumpPc[s] = "send"
    /\ IF buffer[s] # << >>
       THEN /\ buffer' = [buffer EXCEPT ![s] = << >>]
            /\ frames' = [frames EXCEPT ![s] = IF sent THEN Append(@, Frame(buffer[s])) ELSE @]
            /\ wsFailed' = [wsFailed EXCEPT ![s] = @ \/ ~sent]
            /\ pumpPc' = [pumpPc EXCEPT ![s] = IF sent THEN "recv" ELSE "done"]
       ELSE /\ pumpPc' = [pumpPc EXCEPT ![s] = "recv"]
            /\ UNCHANGED <<buffer, frames, wsFailed>>
    /\ late' = [late EXCEPT ![s] = FALSE]
    /\ UNCHANGED <<lockVars, globals, supVars, gateVars, readerVars, cur, ttyDetected,
                   connTty, regWrites, routerVars>>

\* ----------------------------------------------------------- receiver task
\* The resume without its notify_one.
NotifyLost(s) == notified
\* cvar.notify_one(): it reaches the reader only if the reader is waiting.
Notify(s) == [notified EXCEPT ![s] = (rpc[s] = "wait")]

\* The resize without the two `if let Ok`: whatever the text is.
ResizedUnchecked(s, text) ==
    [ptySize EXCEPT ![s] = <<ResizeMessage(text).columns, ResizeMessage(text).rows>>]
\* The resize with rows and cols taken from the wrong fields.
ResizedSwapped(s, text) ==
    IF ValidUtf8(text) /\ ResizeMessage(text).ok
    THEN [ptySize EXCEPT ![s] = <<ResizeMessage(text).rows, ResizeMessage(text).columns>>]
    ELSE ptySize
\* m.resize(PtySize { rows, cols, .. }) with a decoded ResizeMessage.
Resized(s, text) ==
    IF ValidUtf8(text) /\ ResizeMessage(text).ok
    THEN [ptySize EXCEPT ![s] = <<ResizeMessage(text).columns, ResizeMessage(text).rows>>]
    ELSE ptySize

\* The reader waits on the gate and no byte it has read is on its way to
\* the socket.
Quiet(s) ==
    /\ rpc[s] = "wait"
    /\ chan[s] = << >>
    /\ buffer[s] = << >>
    /\ pumpPc[s] = "recv"

\* The payload of an inbound terminal-input frame, << >> for anything else.
InputPayload(msg) ==
    IF msg.kind = "Binary" /\ msg.data # << >> /\ msg.data[1] = INPUT
    THEN Tail(msg.data) ELSE << >>

\* The whole frame taken for its payload.
PayloadWhole(data) == data
\* let cmd = data[0]; let payload = &data[1..]
Opcode(data) == data[1]
Payload(data) == Tail(data)

\* Two messages that are each a bare pause or resume frame.
FlowPair(a, b) ==
    /\ a.kind = "Binary" /\ a.data \in {<<PAUSE>>, <<RESUME>>}
    /\ b.kind = "Binary" /\ b.data \in {<<PAUSE>>, <<RESUME>>}

\* A flag that each flow-control frame flips.
is_paused_flipped(cmd, flag) == IF cmd \in {PAUSE, RESUME} THEN ~flag ELSE flag
\* *is_paused = true for 0x32, *is_paused = false for 0x33.
is_paused(cmd, flag) == IF cmd = PAUSE THEN TRUE ELSE IF cmd = RESUME THEN FALSE ELSE flag

\* One turn of the receiver's loop: ws_receiver.next().await yields `msg`,
\* and the match on it runs.
RouterRecv(s, msg) ==
    /\ rtPc[s] = "recv"
    /\ Len(inputSeen[s]) + Len(InputPayload(msg)) <= MaxInput
    /\ inputSeen' = [inputSeen EXCEPT ![s] = @ \o InputPayload(msg)]
    /\ lastIn' = [lastIn EXCEPT ![s] = msg]
    /\ prevIn' = [prevIn EXCEPT ![s] = IF FlowPair(lastIn[s], msg) THEN lastIn[s] ELSE Msg("None", << >>)]
    /\ rtPc' = [rtPc EXCEPT ![s] = IF msg.kind \in {"End", "Close"} THEN "done" ELSE "recv"]
    /\ LET cmd == IF msg.kind = "Binary" /\ msg.data # << >> THEN Opcode(msg.data) ELSE -1
           payload == IF cmd = -1 THEN << >> ELSE Payload(msg.data)
       IN  /\ ptyWritten' = [ptyWritten EXCEPT ![s] = IF cmd = INPUT THEN @ \o payload ELSE @]
           /\ ptySize' = IF cmd = RESIZE THEN Resized(s, payload)
                         ELSE IF msg.kind = "Text" THEN Resized(s, msg.data)
                         ELSE ptySize
           /\ paused' = [paused EXCEPT ![s] = is_paused(cmd, @)]
           /\ notified' = IF cmd = RESUME THEN Notify(s) ELSE notified
           /\ armed' = [armed EXCEPT ![s] =
                 IF cmd = PAUSE THEN (IF Quiet(s) THEN "quiet" ELSE IF @ = "quiet" THEN @ ELSE "inflight")
                 ELSE IF cmd = RESUME THEN "off" ELSE @]
           /\ mark' = [mark EXCEPT ![s] = IF cmd = PAUSE THEN Len(frames[s]) ELSE @]
           /\ UNCHANGED wake
    /\ UNCHANGED <<lockVars, globals, supPc, firstMsg, initSize, cleanupTty, sweepSaw, readerVars, pumpVars>>

\* One turn of the receiver's loop for a terminal-input frame whose
\* write_all (or flush) fails after k bytes of the payload: both results are
\* discarded (let _ =), and the loop goes on.
RouterWriteFails(s, msg, k) ==
    /\ rtPc[s] = "recv"
    /\ InputPayload(msg) # << >>
    /\ k \in 0..(Len(InputPayload(msg)) - 1)
    /\ Len(inputSeen[s]) + Len(InputPayload(msg)) <= MaxInput
    /\ inputSeen' = [inputSeen EXCEPT ![s] = @ \o InputPayload(msg)]
    /\ lastIn' = [lastIn EXCEPT ![s] = msg]
    /\ prevIn' = [prevIn EXCEPT ![s] = IF FlowPair(lastIn[s], msg) THEN lastIn[s] ELSE Msg("None", << >>)]
    /\ ptyWritten' = [ptyWritten EXCEPT ![s] = @ \o SubSeq(Payload(msg.data), 1, k)]
    /\ UNCHANGED <<lockVars, globals, supVars, gateVars, readerVars, pumpVars, rtPc>>

\* ---------------------------------------------------------------- teardown
\* The select over the two tasks returns, and the gate is released.
SupRelease(s) ==
    /\ supPc[s] = "running"
    /\ pumpPc[s] = "done" \/ rtPc[s] = "done"
    /\ paused' = [paused EXCEPT ![s] = FALSE]
    /\ notified' = Notify(s)
    /\ armed' = [armed EXCEPT ![s] = "off"]
    /\ UNCHANGED mark
    /\ supPc' = [supPc EXCEPT ![s] = "readtty"]
    /\ UNCHANGED wake
    /\ UNCHANGED <<lockVars, globals, firstMsg, initSize, ptySize, cleanupTty, sweepSaw, readerVars, pumpVars,
                   routerVars>>

\* cleanup_tty = connection_tty.lock().ok().and_then(|lock| lock.clone())
SupReadTty(s) ==
    /\ supPc[s] = "readtty"
    /\ cleanupTty' = [cleanupTty EXCEPT ![s] = connTty[s]]
    /\ supPc' = [supPc EXCEPT ![s] = IF connTty[s] # None THEN "detach" ELSE "sweep"]
    /\ UNCHANGED <<lockVars, globals, firstMsg, initSize, ptySize, sweepSaw, gateVars, readerVars, pumpVars,
                   routerVars>>

\* The detach run with what the registry holds.
DetachTargetGlobal(s) == clientTty
\* The path the detach is run with.
DetachTarget(s) == cleanupTty[s]

\* The detach whose Err ends the handler.
SupDetachFatal(s, ok) ==
    /\ supPc[s] = "detach"
    /\ detachLog' = detachLog \cup {[s |-> s, tty |-> DetachTarget(s)]}
    /\ detachFailed' = IF ok THEN detachFailed ELSE detachFailed \cup {s}
    /\ supPc' = [supPc EXCEPT ![s] = IF ok THEN "sweep" ELSE "ended"]
    /\ UNCHANGED <<lockVars, clientTty, firstMsg, initSize, ptySize, cleanupTty, sweepSaw, gateVars,
                   readerVars, pumpVars, routerVars>>

\* run_cmd("tmux", ["detach-client", "-t", tty]) and the 100 ms sleep:
\* an Err (the command cannot be run, or exits with a failure status) is
\* logged, and the teardown goes on as after an Ok.
SupDetach(s, ok) ==
    /\ supPc[s] = "detach"
    /\ detachLog' = detachLog \cup {[s |-> s, tty |-> DetachTarget(s)]}
    /\ detachFailed' = IF ok THEN detachFailed ELSE detachFailed \cup {s}
    /\ supPc' = [supPc EXCEPT ![s] = "sweep"]
    /\ UNCHANGED <<lockVars, clientTty, firstMsg, initSize, ptySize, cleanupTty, sweepSaw, gateVars,
                   readerVars, pumpVars, routerVars>>

\* The sweep without the comparison.
SweptAlways(s) == None
\* if *lock == cleanup_tty { *lock = None }
Swept(s) == IF clientTty = cleanupTty[s] THEN None ELSE clientTty

SupSweep(s) ==
    /\ supPc[s] = "sweep"
    /\ clientTty' = Swept(s)
    /\ sweepSaw' = [sweepSaw EXCEPT ![s] = clientTty]
    /\ supPc' = [supPc EXCEPT ![s] = "ended"]
    /\ UNCHANGED <<lockVars, detachLog, detachFailed, firstMsg, initSize, ptySize, cleanupTty, gateVars, readerVars,
                   pumpVars, routerVars>>

\* ----------------------------------------------------- lock-level steps
\* The operation the thread is at, and the locks it holds.
NextOp(t) ==
    IF lockPc[t][1] = 0 THEN Op("none", "") ELSE Arms(t)[lockPc[t][1]][lockPc[t][2]]
Held(t) == {l \in Locks : owner[l] = t}

\* The thread starts one of its code paths.
LockEnter(t, a) ==
    /\ lockPc[t] = Top
    /\ a \in 1..Len(Arms(t))
    /\ lockPc' = [lockPc EXCEPT ![t] = <<a, 1>>]
    /\ UNCHANGED <<owner, globals, supVars, gateVars, readerVars, pumpVars, routerVars>>

\* The thread performs the operation it is at: lock() goes through when
\* the mutex is free, and blocks the thread until then.
LockStep(t) ==
    /\ lockPc[t][1] # 0
    /\ LET op == NextOp(t)
           l == LockOf(t, op.l)
           a == lockPc[t][1]
           i == lockPc[t][2]
       IN  /\ op.k = "lock" => owner[l] = NoThread
           /\ owner' = CASE op.k = "lock" -> [owner EXCEPT ![l] = t]
                         [] op.k \in {"unlock", "wait"} -> [owner EXCEPT ![l] = NoThread]
                         [] OTHER -> owner
           /\ lockPc' = [lockPc EXCEPT ![t] =
                 IF i < Len(Arms(t)[a]) THEN <<a, i + 1>>
                 ELSE IF t[1] = "sup" THEN Returned ELSE Top]
    /\ UNCHANGED <<globals, supVars, gateVars, readerVars, pumpVars, routerVars>>

\* ------------------------------------------------------------ environments
\* What the child prints, as the chunks one read can return.
ChunkHi == <<104, 105>>
ChunkFull == [i \in 1..BufScale |-> 65]
Chunks == {ChunkHi, ChunkFull, Announce(Pts7), Announce(Pts8)}
AnnounceChunks == {Announce(Pts7), Announce(Pts8)}
\* The announce of /dev/pts/7 as two reads return it when the first read
\* ends after "ESC ] 7 3".
AnnounceHead == SubSeq(Announce(Pts7), 1, 4)
AnnounceTail == From(Announce(Pts7), 5)
ScanChunks == {ChunkHi, Announce(Pts7), AnnounceHead, AnnounceTail}
\* The announce of /dev/pts/7 followed by the first byte of a two-byte
\* character whose second byte comes with the next read.
AnnounceCut == Announce(Pts7) \o <<195>>
Utf8Chunks == {ChunkHi, Announce(Pts7), AnnounceCut}
\* An announce of a path outside /dev/pts/ (/dev/tty1), and the announce
\* of /dev/pts/7 of which the read returns all but the closing ESC \.
AnnounceOther == Announce(<<47, 100, 101, 118, 47, 116, 116, 121, 49>>)
AnnounceOpen == <<ESC>> \o Marker \o Pts7
RejectChunks == {AnnounceOther, AnnounceOpen, Announce(Pts7)}
\* A chunk that fills the buffer to the threshold exactly after "hi".
ChunkRest == [i \in 1..(BufScale - 2) |-> 66]
BatchChunks == {ChunkHi, ChunkRest, ChunkFull}

\* What the client sends after the init message.
InputHi == Msg("Binary", <<INPUT>> \o ChunkHi)
PauseMsg == Msg("Binary", <<PAUSE>>)
ResumeMsg == Msg("Binary", <<RESUME>>)
Inbound ==
    { InputHi, Msg("Binary", <<INPUT, 120>>), Msg("Binary", <<INPUT, RESIZE>>),
      PauseMsg, ResumeMsg, CloseMsg, StreamEnd,
      Msg("Binary", << >>), Msg("Binary", <<INPUT>>), Msg("Binary", <<52, 120>>),
      Msg("Binary", <<RESIZE>> \o JsonSmall), Msg("Binary", <<RESIZE>> \o NotJson),
      Msg("Binary", <<RESIZE>> \o JsonWide),
      Msg("Text", JsonAuth), Msg("Text", ChunkHi), Msg("Text", JsonNoRows),
      Msg("Ping", ChunkHi), Msg("Pong", ChunkHi) }

\* What the handshake's ws_receiver.next() can yield.
InitMsgs ==
    { Msg("Text", JsonSmall), Msg("Binary", JsonAuth), Msg("Text", JsonWide),
      Msg("Text", JsonWrap), Msg("Text", JsonNoRows), Msg("Text", JsonTyped),
      Msg("Text", NotJson), Msg("Binary", <<255>>), Msg("Ping", ChunkHi),
      CloseMsg, StreamEnd }

\* First messages that would be terminal traffic after the handshake, and
\* the init message.
FirstFrames ==
    { InputHi, Msg("Binary", <<RESIZE>> \o JsonSmall), PauseMsg, ResumeMsg,
      Msg("Text", JsonAuth) }

\* The messages among them that the output side can tell apart.
FlowMsgs == {PauseMsg, ResumeMsg, CloseMsg, StreamEnd}

ErrTexts == {<< >>, <<69>>}

\* ---------------------------------------------------------- specifications
\* One connection, its output side in full: the child prints any of Chunks,
\* the client pauses, resumes and leaves.
Next ==
    \E s \in Solo :
        \/ \E m \in {Msg("Text", JsonSmall), StreamEnd} : Handshake(s, m)
        \/ \E o \in SetupOutcomes, e \in ErrTexts, sent \in BOOLEAN : Setup(s, o, e, sent)
        \/ ReaderGate(s)
        \/ ReaderNotified(s)
        \/ ReaderTimeout(s)
        \/ \E c \in Chunks : ReaderRead(s, c)
        \/ ReaderEof(s)
        \/ PumpRecvFirst(s)
        \/ \E sent \in BOOLEAN : PumpClosedFirst(s, sent)
        \/ PumpConn(s)
        \/ PumpRecvMore(s)
        \/ \E sent \in BOOLEAN : PumpClosedMore(s, sent)
        \/ PumpDeadline(s)
        \/ \E sent \in BOOLEAN : PumpSend(s, sent)
        \/ \E m \in FlowMsgs : RouterRecv(s, m)
        \/ SupRelease(s)
        \/ SupReadTty(s)
        \/ SupDetach(s, TRUE)
        \/ SupSweep(s)

Spec == Init /\ [][Next]_vars

\* The same connection with a child that prints only ChunkHi, and the timer
\* of the reader's wait_timeout, which fires when the wait lasts.
NextGate ==
    \E s \in Solo :
        \/ Handshake(s, Msg("Text", JsonSmall))
        \/ Setup(s, "ok", << >>, TRUE)
        \/ ReaderGate(s)
        \/ ReaderNotified(s)
        \/ ReaderTimeout(s)
        \/ ReaderRead(s, ChunkHi)
        \/ ReaderEof(s)
        \/ PumpRecvFirst(s)
        \/ \E sent \in BOOLEAN : PumpClosedFirst(s, sent)
        \/ PumpRecvMore(s)
        \/ \E sent \in BOOLEAN : PumpClosedMore(s, sent)
        \/ PumpDeadline(s)
        \/ \E sent \in BOOLEAN : PumpSend(s, sent)
        \/ \E m \in FlowMsgs : RouterRecv(s, m)
        \/ SupRelease(s)
        \/ SupReadTty(s)
        \/ SupSweep(s)

SpecGate == Init /\ [][NextGate]_vars /\ \A s \in Solo : WF_vars(ReaderTimeout(s))

\* What the scheduling of the thread, of the two tasks and of the handler
\* guarantees: a step of the program that stays possible is taken.  What the
\* child prints, when it exits and what the client sends is not scheduled.
Scheduled(s) ==
    /\ WF_vars(ReaderGate(s))
    /\ WF_vars(ReaderNotified(s))
    /\ WF_vars(ReaderTimeout(s))
    /\ WF_vars(PumpRecvFirst(s))
    /\ WF_vars(\E sent \in BOOLEAN : PumpClosedFirst(s, sent))
    /\ WF_vars(PumpRecvMore(s))
    /\ WF_vars(\E sent \in BOOLEAN : PumpClosedMore(s, sent))
    /\ WF_vars(PumpDeadline(s))
    /\ WF_vars(\E sent \in BOOLEAN : PumpSend(s, sent))
    /\ WF_vars(SupRelease(s))
    /\ WF_vars(SupReadTty(s))
    /\ WF_vars(SupSweep(s))

SpecLive == Init /\ [][NextGate]_vars /\ \A s \in Solo : Scheduled(s)

\* One connection, its handshake, set-up and input side in full: the client
\* sends any of InitMsgs, then any of Inbound; the reader thread and the
\* sender task are not scheduled.
NextIn ==
    \E s \in Solo :
        \/ \E m \in InitMsgs : Handshake(s, m)
        \/ \E o \in SetupOutcomes, e \in ErrTexts, sent \in BOOLEAN : Setup(s, o, e, sent)
        \/ \E m \in Inbound : RouterRecv(s, m)
        \/ SupRelease(s)
        \/ SupReadTty(s)
        \/ SupSweep(s)

SpecIn == Init /\ [][NextIn]_vars

\* One connection typing into a PTY whose writes can fail.
NextWrite ==
    \E s \in Solo :
        \/ Handshake(s, Msg("Text", JsonSmall))
        \/ Setup(s, "ok", << >>, TRUE)
        \/ \E m \in {InputHi, Msg("Binary", <<INPUT, 120>>), PauseMsg, ResumeMsg, CloseMsg, StreamEnd} :
              RouterRecv(s, m)
        \/ \E m \in {InputHi, Msg("Binary", <<INPUT, 120>>)}, k \in 0..1 : RouterWriteFails(s, m, k)
        \/ SupRelease(s)
        \/ SupReadTty(s)
        \/ SupSweep(s)

SpecWrite == Init /\ [][NextWrite]_vars

\* One session by its first message and the traffic after it.
NextFirst ==
    \E s \in Solo :
        \/ \E m \in FirstFrames : Handshake(s, m)
        \/ Setup(s, "ok", << >>, TRUE)
        \/ \E m \in {InputHi, PauseMsg, ResumeMsg, Msg("Text", JsonSmall), CloseMsg} :
              RouterRecv(s, m)
        \/ SupRelease(s)
        \/ SupReadTty(s)
        \/ SupSweep(s)

SpecFirst == Init /\ [][NextFirst]_vars

\* The session's thread, tasks and handler and a REST handler, by their
\* lock operations only.
NextLock ==
    \E t \in Threads :
        \/ \E a \in 1..4 : LockEnter(t, a)
        \/ LockStep(t)

SpecLock == Init /\ [][NextLock]_vars

\* Two connections around the registry: each child prints one announce (the
\* wrapper script prints it once), each client leaves when it likes.

NextReg ==
    \E s \in Sessions :
        \/ Handshake(s, Msg("Text", JsonSmall))
        \/ Setup(s, "ok", << >>, TRUE)
        \/ ReaderGate(s)
        \/ \E c \in AnnounceChunks : childOut[s] = << >> /\ ReaderRead(s, c)
        \/ ReaderEof(s)
        \/ PumpRecvFirst(s)
        \/ PumpClosedFirst(s, TRUE)
        \/ PumpConn(s)
        \/ PumpClosedMore(s, TRUE)
        \/ PumpDeadline(s)
        \/ PumpSend(s, TRUE)
        \/ RouterRecv(s, CloseMsg)
        \/ SupRelease(s)
        \/ SupReadTty(s)
        \/ SupDetach(s, TRUE)
        \/ SupSweep(s)

SpecReg == Init /\ [][NextReg]_vars

\* One connection whose child prints the announce of /dev/pts/7 and "hi",
\* which the reads return whole or cut; the socket takes every frame.
NextScan ==
    \E s \in Solo :
        \/ Handshake(s, Msg("Text", JsonSmall))
        \/ Setup(s, "ok", << >>, TRUE)
        \/ ReaderGate(s)
        \/ \E c \in ScanChunks : ReaderRead(s, c)
        \/ ReaderEof(s)
        \/ PumpRecvFirst(s)
        \/ PumpClosedFirst(s, TRUE)
        \/ PumpConn(s)
        \/ PumpRecvMore(s)
        \/ PumpClosedMore(s, TRUE)
        \/ PumpDeadline(s)
        \/ PumpSend(s, TRUE)
        \/ RouterRecv(s, CloseMsg)
        \/ SupRelease(s)
        \/ SupReadTty(s)
        \/ \E ok \in BOOLEAN : SupDetach(s, ok)
        \/ SupSweep(s)

SpecScan == Init /\ [][NextScan]_vars

\* One session whose child prints the announce with a character cut at
\* the end of the read.
NextUtf ==
    \E s \in Solo :
        \/ Handshake(s, Msg("Text", JsonSmall))
        \/ Setup(s, "ok", << >>, TRUE)
        \/ ReaderGate(s)
        \/ \E c \in Utf8Chunks : ReaderRead(s, c)
        \/ ReaderEof(s)
        \/ PumpRecvFirst(s)
        \/ PumpClosedFirst(s, TRUE)
        \/ PumpConn(s)
        \/ PumpRecvMore(s)
        \/ PumpClosedMore(s, TRUE)
        \/ PumpDeadline(s)
        \/ PumpSend(s, TRUE)
        \/ RouterRecv(s, CloseMsg)
        \/ SupRelease(s)
        \/ SupReadTty(s)
        \/ SupDetach(s, TRUE)
        \/ SupSweep(s)

SpecUtf == Init /\ [][NextUtf]_vars

\* One session whose child prints announces the scan rejects, and the
\* announce of its TTY.
NextReject ==
    \E s \in Solo :
        \/ Handshake(s, Msg("Text", JsonSmall))
        \/ Setup(s, "ok", << >>, TRUE)
        \/ ReaderGate(s)
        \/ \E c \in RejectChunks : ReaderRead(s, c)
        \/ ReaderEof(s)
        \/ PumpRecvFirst(s)
        \/ PumpClosedFirst(s, TRUE)
        \/ PumpConn(s)
        \/ PumpRecvMore(s)
        \/ PumpClosedMore(s, TRUE)
        \/ PumpDeadline(s)
        \/ PumpSend(s, TRUE)
        \/ RouterRecv(s, CloseMsg)
        \/ SupRelease(s)
        \/ SupReadTty(s)
        \/ SupDetach(s, TRUE)
        \/ SupSweep(s)

SpecReject == Init /\ [][NextReject]_vars

\* One connection whose child prints short and long chunks, with the clock
\* of the sender task's deadline; the socket takes every frame.
NextBatch ==
    \E s \in Solo :
        \/ Handshake(s, Msg("Text", JsonSmall))
        \/ Setup(s, "ok", << >>, TRUE)
        \/ ReaderGate(s)
        \/ \E c \in BatchChunks : ReaderRead(s, c)
        \/ ReaderEof(s)
        \/ PumpRecvFirst(s)
        \/ PumpClosedFirst(s, TRUE)
        \/ PumpRecvMore(s)
        \/ PumpClosedMore(s, TRUE)
        \/ DeadlinePasses(s)
        \/ PumpDeadline(s)
        \/ PumpSend(s, TRUE)
        \/ RouterRecv(s, CloseMsg)
        \/ SupRelease(s)
        \/ SupReadTty(s)
        \/ SupSweep(s)

SpecBatch == Init /\ [][NextBatch]_vars

\* One session whose child prints up to MaxBurst chunks, short ones and
\* ones that fill the read buffer.
NextFrame ==
    \E s \in Solo :
        \/ Handshake(s, Msg("Text", JsonSmall))
        \/ Setup(s, "ok", << >>, TRUE)
        \/ ReaderGate(s)
        \/ \E c \in {ChunkHi, ChunkFull} : ReadUpTo(s, c, MaxBurst)
        \/ ReaderEof(s)
        \/ PumpRecvFirst(s)
        \/ PumpClosedFirst(s, TRUE)
        \/ PumpRecvMore(s)
        \/ PumpClosedMore(s, TRUE)
        \/ PumpDeadline(s)
        \/ PumpSend(s, TRUE)
        \/ RouterRecv(s, CloseMsg)
        \/ SupRelease(s)
        \/ SupReadTty(s)
        \/ SupSweep(s)

SpecFrame == Init /\ [][NextFrame]_vars

\* ------------------------------------------------------------------ claims
\* The payloads of the frames a session has sent, opcode stripped, in order.
RECURSIVE Payloads(_)
Payloads(fs) == IF fs = << >> THEN << >> ELSE Tail(Head(fs)) \o Payloads(Tail(fs))

\* C1: every frame the server has sent, from the sender task or as the
\* diagnostic of a PTY failure, starts with the byte 0x30 and carries at
\* least one byte after it.
C1_FramesWellFormed ==
    \A s \in Sessions : \A i \in 1..Len(frames[s]) :
        /\ Len(frames[s][i]) >= 2
        /\ frames[s][i][1] = 48

\* C1 witness: the sender task has ended after sending two frames or more.
C1_Witness == pumpPc[1] = "done" /\ Len(frames[1]) >= 2

\* C2: the payloads of the frames sent so far, concatenated, are a prefix of
\* what was read from the PTY, and are all of it once the sender task has
\* seen the channel closed and no send on the socket has failed.
C2_OutputInOrder ==
    \A s \in Sessions :
        pumpPc[s] # "idle" =>
            /\ IsPrefix(Payloads(frames[s]), childOut[s])
            /\ (pumpPc[s] = "done" /\ ~wsFailed[s] => Payloads(frames[s]) = childOut[s])

\* C2 witness: the channel has closed, every send went through, and the
\* child's two chunks left in two frames.
C2_Witness ==
    /\ pumpPc[1] = "done"
    /\ ~wsFailed[1]
    /\ Len(frames[1]) = 2
    /\ nReads[1] = 2
    /\ Payloads(frames[1]) = childOut[1]

C4_PauseStopsFrames ==
    [][\A s \in Sessions : armed[s] = "quiet" => frames'[s] = frames[s]]_vars

\* C5: a reader waiting on the gate leaves the wait with the flag false and
\* goes on to read; a wait that no notification ends is ended by the
\* timeout, which leaves the flag false.
C5_WaitEnds ==
    /\ \A s \in Solo : (rpc[s] = "wait") ~> (rpc[s] = "read" /\ ~paused[s])
    /\ [][\A s \in Solo :
            (rpc[s] = "wait" /\ ~notified[s] /\ rpc'[s] # "wait")
                => (wake'[s] = "timeout" /\ ~paused'[s] /\ rpc'[s] = "read")]_vars

\* C5 witness: the client paused and left, the teardown has not yet
\* released the gate, and the reader's wait has timed out.
C5_Witness ==
    /\ rtPc[1] = "done"
    /\ supPc[1] = "running"
    /\ wake[1] = "timeout"
    /\ rpc[1] = "read"
    /\ ~paused[1]

\* C9: once tty_detected is true, no step changes the connection's
\* connection_tty or is a write of the registry by that connection.
C9_FirstObservationWins ==
    [][\A s \in Sessions :
          ttyDetected[s] => (connTty'[s] = connTty[s] /\ regWrites'[s] = regWrites[s])]_vars

\* C9 witness: after the announce of /dev/pts/7 the sender task has taken a
\* chunk that announces /dev/pts/8, and both places still hold /dev/pts/7.
C9_Witness ==
    /\ ttyDetected[1]
    /\ Find(Payloads(frames[1]) \o buffer[1], Announce(Pts8)) > 0
    /\ connTty[1] = Pts7
    /\ clientTty = Pts7
    /\ regWrites[1] = 1

\* The step of session s that is its teardown sweep.
SweepStep(s) == supPc[s] = "sweep" /\ supPc'[s] = "ended"
\* The step of session s that is a write of the registry by its sender task.
PublishStep(s) == regWrites'[s] # regWrites[s]

\* C6: after a session's sweep the registry is None exactly if, just
\* before it, the registry equalled the session's connection_tty; read for
\* a registry that holds a path when the sweep runs (a registry found None
\* is None afterwards whatever the session observed).
C6_SweepIffEqual ==
    [][\A s \in Sessions :
          (SweepStep(s) /\ clientTty # None)
              => ((clientTty' = None) <=> (clientTty = connTty[s]))]_vars

\* C7: a sweep that finds in the registry a path that is not the session's
\* own connection_tty leaves the registry as it is.
C7_SweepKeepsOthers ==
    [][\A s \in Sessions :
          (SweepStep(s) /\ clientTty # None /\ clientTty # connTty[s])
              => clientTty' = clientTty]_vars

\* C7 witness: session 1, which had observed /dev/pts/7, has swept while
\* the registry held the /dev/pts/8 of session 2, and the registry holds it
\* still.
C7_Witness ==
    /\ supPc[1] = "ended"
    /\ connTty[1] = Pts7
    /\ sweepSaw[1] = Pts8
    /\ connTty[2] = Pts8
    /\ supPc[2] = "running"
    /\ clientTty = Pts8

\* C8: every detach was run with the detaching connection's own
\* connection_tty, which was a path: none is run for a connection that
\* observed no TTY, and none with a path only the registry held.
C8_DetachOwnTty ==
    \A d \in detachLog : d.tty # None /\ d.tty = connTty[d.s]

\* C8 witness: session 1 has detached its /dev/pts/7 while the registry
\* holds the /dev/pts/8 that session 2 published.
C8_Witness ==
    /\ [s |-> 1, tty |-> Pts7] \in detachLog
    /\ supPc[1] = "sweep"
    /\ clientTty = Pts8
    /\ connTty[2] = Pts8

C11_AnnounceDetected ==
    \A s \in Solo :
        (supPc[s] = "running" /\ Find(Payloads(frames[s]), Announce(Pts7)) > 0)
            => (connTty[s] = Pts7 /\ clientTty = Pts7)

\* C12: once the receiver task has seen the client close the socket while
\* the reader thread is blocked in a read of a child that has printed
\* nothing, the thread eventually returns unless the child prints after all.
C12_ReaderEnds ==
    \A s \in Solo :
        (rtPc[s] = "done" /\ rpc[s] = "read" /\ nReads[s] = 0)
            ~> (rpc[s] = "done" \/ nReads[s] > 0)

\* C13: the handler returns only after it has released the gate, run the
\* detach for the path it read from connection_tty, swept the registry and
\* joined the reader thread; the thread, joined, has returned by then.
C13_TeardownJoinsReader ==
    \A s \in Sessions :
        supPc[s] = "ended" =>
            /\ cleanupTty[s] # None => [s |-> s, tty |-> cleanupTty[s]] \in detachLog
            /\ rpc[s] = "done"

\* C14: once the handler has returned from its teardown, neither the sender
\* task nor the receiver task takes a step: no PTY write, no resize, no
\* change of the gate's flag, no frame and no registry write of the session
\* comes after it.
C14_TasksDoneAtReturn ==
    [][\A s \in Sessions :
          supPc[s] = "ended" =>
              /\ pumpPc'[s] = pumpPc[s]
              /\ rtPc'[s] = rtPc[s]
              /\ ptyWritten'[s] = ptyWritten[s]
              /\ ptySize'[s] = ptySize[s]
              /\ paused'[s] = paused[s]
              /\ frames'[s] = frames[s]
              /\ regWrites'[s] = regWrites[s]]_vars

\* C15: while a pause is in force (handled, with neither a resume, a gate
\* timeout nor the teardown's release after it), at most one frame has been
\* sent since that pause was handled.
C15_OneFrameAfterPause ==
    \A s \in Sessions : armed[s] # "off" => Len(frames[s]) <= mark[s] + 1

\* C16: a resume is never lost.  A reader that waits on the gate while the
\* flag is clear has a notification pending, so it leaves the wait without
\* the timeout; the notification takes it to the read; and a reader that
\* finds the flag clear at its gate check goes to the read without waiting.
C16_ResumeNotLost ==
    /\ [](\A s \in Sessions : (rpc[s] = "wait" /\ ~paused[s]) => notified[s])
    /\ [][\A s \in Sessions :
             /\ (rpc[s] = "wait" /\ wake'[s] = "notified") => rpc'[s] = "read"
             /\ (rpc[s] = "gate" /\ ~paused[s] /\ rpc'[s] # "gate") => rpc'[s] = "read"]_vars

\* C16 witness: with the handler still running, the reader has been woken
\* from its wait by the notification of a resume and is at its read.
C16_Witness ==
    /\ supPc[1] = "running"
    /\ rtPc[1] = "recv"
    /\ wake[1] = "notified"
    /\ rpc[1] = "read"
    /\ ~paused[1]

\* The size the PTY is opened with after first message m: columns and rows
\* of a message that parses, each raised to at least 1 and then cut to 16
\* bits, else 80 x 24.
C17_Expected(m) ==
    CASE m = Msg("Text", JsonSmall)  -> <<40, 12>>
      [] m = Msg("Binary", JsonAuth) -> <<120, 30>>
      [] m = Msg("Text", JsonWide)   -> <<4464, 1>>
      [] m = Msg("Text", JsonWrap)   -> <<0, 24>>
      [] OTHER                       -> <<80, 24>>

\* The step of session s that opens its PTY.
OpenStep(s) == supPc[s] = "setup" /\ supPc'[s] = "running"

\* C17 as stated: the PTY is opened at 80 x 24 if the first message does
\* not parse as an InitMessage, and at the columns and rows the message
\* gives if it does.
C17_OpenSizeAsGiven ==
    [][\A s \in Sessions :
          OpenStep(s) =>
              LET m == firstMsg[s]
                  parses == /\ m.kind \in {"Text", "Binary"}
                            /\ ValidUtf8(m.data)
                            /\ InitMessage(m.data).ok
              IN  ptySize'[s] = IF parses
                                THEN <<InitMessage(m.data).columns, InitMessage(m.data).rows>>
                                ELSE <<80, 24>>]_vars

\* C17 amended: the PTY is opened at 80 x 24 if the first message does not
\* parse as an InitMessage, and else at the columns and rows it gives, each
\* raised to at least 1 and then cut to its low 16 bits (0 gives 1, 70000
\* gives 4464, 65536 gives 0).
C17_OpenSize ==
    [][\A s \in Sessions : OpenStep(s) => ptySize'[s] = C17_Expected(firstMsg[s])]_vars

\* C17 witness: a session opened with {"columns":70000,"rows":0} runs with
\* a PTY of 4464 x 1.
C17_Witness ==
    /\ supPc[1] = "running"
    /\ firstMsg[1] = Msg("Text", JsonWide)
    /\ ptySize[1] = <<4464, 1>>

\* C18: the size a session opens its PTY with has at least 1 column and at
\* least 1 row.
C18_SizeAtLeastOne ==
    \A s \in Sessions :
        supPc[s] \notin {"handshake", "no_init"} => (initSize[s][1] >= 1 /\ initSize[s][2] >= 1)

\* C19: a session whose handshake got no init message (the stream ended or
\* failed, or the first message was a Close) opens no PTY, starts no reader
\* thread and no task, and sends no frame.
C19_NoInitSilent ==
    \A s \in Sessions :
        firstMsg[s].kind \in {"End", "Close"} =>
            /\ ptySize[s] = <<0, 0>>
            /\ rpc[s] = "idle" /\ pumpPc[s] = "idle" /\ rtPc[s] = "idle"
            /\ frames[s] = << >>

\* C20: a session whose PTY set-up failed has started no reader thread and
\* no task and, unless the socket refused it, has sent exactly one frame,
\* of opcode 0x30.
C20_OneDiagnosticFrame ==
    \A s \in Sessions :
        supPc[s] = "failed" =>
            /\ rpc[s] = "idle" /\ pumpPc[s] = "idle" /\ rtPc[s] = "idle"
            /\ wsFailed[s] \/ (Len(frames[s]) = 1 /\ frames[s][1][1] = OUTPUT)

\* C21: in the inner loop, an append that takes the buffer to the threshold
\* (32768 bytes in the code) or beyond takes the task out of the loop to
\* the send, at the threshold exactly as well as beyond it.
C21_FlushAtThreshold ==
    [][\A s \in Sessions :
          (/\ pumpPc[s] \in {"coalesce", "conn_more"}
           /\ Len(buffer'[s]) > Len(buffer[s])
           /\ Len(buffer'[s]) >= BufScale)
              => pumpPc'[s] = "send"]_vars

\* C22: once the deadline of the iteration is past, the task takes no
\* further chunk into the buffer before it sends the frame.
C22_DeadlineNotPostponed ==
    [][\A s \in Sessions :
          (late[s] /\ pumpPc[s] = "coalesce")
              => (buffer'[s] = buffer[s] /\ pumpPc'[s] \in {"coalesce", "send", "done"})]_vars

\* C23: once a write of an input payload to the PTY has failed (the PTY
\* has not got every byte the client sent), the receiver task has ended.
C23_WriteErrorEndsRouter ==
    \A s \in Sessions : ptyWritten[s] # inputSeen[s] => rtPc[s] = "done"

\* The inbound messages that are no input, no valid resize, no pause, no
\* resume and no close: an opcode outside 0x30..0x33, an empty binary
\* frame, a 0x31 frame or a text frame that holds no ResizeMessage (no
\* JSON, a field missing, a value beyond 16 bits), a ping, a pong.
Malformed ==
    { Msg("Binary", <<52, 120>>), Msg("Binary", << >>),
      Msg("Binary", <<RESIZE>> \o NotJson), Msg("Binary", <<RESIZE>> \o JsonWide),
      Msg("Text", ChunkHi), Msg("Text", JsonNoRows),
      Msg("Ping", ChunkHi), Msg("Pong", ChunkHi) }

\* C24: the turn of the receiver's loop that takes a malformed message
\* leaves the bytes written to the PTY, the PTY's size and the paused flag
\* as they were, puts no frame on the socket, and the loop goes on; and no
\* text message, valid resize or not, adds a byte to the PTY's input.
C24_MalformedIgnored ==
    [][\A s \in Sessions :
          /\ (lastIn'[s] # lastIn[s] /\ lastIn'[s] \in Malformed)
                => /\ ptyWritten'[s] = ptyWritten[s]
                   /\ ptySize'[s] = ptySize[s]
                   /\ paused'[s] = paused[s]
                   /\ frames'[s] = frames[s]
                   /\ rtPc'[s] = "recv"
          /\ (lastIn'[s] # lastIn[s] /\ lastIn'[s].kind = "Text")
                => ptyWritten'[s] = ptyWritten[s]]_vars
\* A resize over 16 bits has just been taken, after a resize, a pause and
\* an input that all still stand.
C24_Witness ==
    /\ lastIn[1] = Msg("Binary", <<RESIZE>> \o JsonWide)
    /\ rtPc[1] = "recv"
    /\ ptySize[1] = <<120, 30>>
    /\ paused[1]
    /\ ptyWritten[1] = ChunkHi

\* The receiver task takes message b, the message it took before being a.
RouterTakes(s, a, b) ==
    /\ lastIn[s] = a /\ lastIn'[s] = b /\ prevIn'[s] = a
    /\ UNCHANGED <<readerVars, pumpVars, supVars>>

\* C25: a pause taken after a pause whose flag still stands leaves the
\* flag and the pending notification as they are, so does a resume taken
\* after a resume, and a resume taken after a pause leaves the flag clear
\* whatever it was; a pause sets the flag and a resume clears it from
\* either value.
C25_FlagOpsIdempotent ==
    [][\A s \in Sessions :
          /\ (RouterTakes(s, PauseMsg, PauseMsg) /\ paused[s])
                => (paused'[s] /\ notified'[s] = notified[s])
          /\ (RouterTakes(s, ResumeMsg, ResumeMsg) /\ ~paused[s])
                => (~paused'[s] /\ notified'[s] = notified[s])
          /\ RouterTakes(s, PauseMsg, ResumeMsg) => ~paused'[s]
          /\ \A a \in {PauseMsg, ResumeMsg} :
                /\ RouterTakes(s, a, PauseMsg) => paused'[s]
                /\ RouterTakes(s, a, ResumeMsg) => ~paused'[s]]_vars
\* Two pauses in a row have been taken and the flag is set, the reader
\* waiting on the gate.
C25_Witness ==
    /\ prevIn[1] = PauseMsg /\ lastIn[1] = PauseMsg
    /\ paused[1] /\ rpc[1] = "wait"

\* The ResizeMessage an inbound message carries, if it carries one: the
\* UTF-8 payload of a 0x31 frame or the content of a text frame.
ResizeOf(m) ==
    IF m.kind = "Binary" /\ m.data # << >> /\ m.data[1] = RESIZE /\ ValidUtf8(Tail(m.data))
    THEN ResizeMessage(Tail(m.data))
    ELSE IF m.kind = "Text" THEN ResizeMessage(m.data)
    ELSE [ok |-> FALSE, columns |-> 0, rows |-> 0]

\* C26: when the latest message is a valid resize, binary or text, the
\* PTY has its columns and rows, whatever came before and also when the
\* size was that already; and once the PTY is open, the step that takes
\* any other message, like every other step, leaves the size as the last
\* valid resize set it.
C26_LastResizeWins ==
    [][\A s \in Sessions :
          IF ResizeOf(lastIn'[s]).ok
          THEN ptySize'[s] = <<ResizeOf(lastIn'[s]).columns, ResizeOf(lastIn'[s]).rows>>
          ELSE supPc[s] = "running" => ptySize'[s] = ptySize[s]]_vars
\* A PTY opened at 80 x 24 has taken input and then a text resize.
C26_Witness ==
    /\ firstMsg[1] = Msg("Text", NotJson)
    /\ initSize[1] = <<DefaultCols, DefaultRows>>
    /\ inputSeen[1] = ChunkHi
    /\ lastIn[1] = Msg("Text", JsonAuth)
    /\ ptySize[1] = <<120, 30>>

\* C27: the sender task that finds the channel closed and drained, while
\* it waits for a first chunk or in its inner loop, puts the bytes of its
\* buffer on the socket as one frame (no frame if it holds none, and
\* unless the socket refuses the frame) and ends; and once the reader
\* thread has returned, the sender task ends and the handler finishes its
\* teardown.
C27_ClosureFlushesAndEnds ==
    /\ [][\A s \in Sessions :
             (TxClosed(s) /\ chan[s] = << >> /\ pumpPc[s] \in {"recv", "coalesce"} /\ pumpPc'[s] = "done")
                 => \/ wsFailed'[s]
                    \/ frames'[s] = IF buffer[s] # << >>
                                    THEN Append(frames[s], Frame(buffer[s]))
                                    ELSE frames[s]]_vars
    /\ \A s \in Solo : rpc[s] = "done" ~> (pumpPc[s] = "done" /\ supPc[s] = "ended")
\* The read has ended after the child's output, the last chunk went out
\* as the session's only frame from the inner loop's closure, and the
\* handler has returned.
C27_Witness ==
    /\ rpc[1] = "done" /\ pumpPc[1] = "done" /\ supPc[1] = "ended"
    /\ rtPc[1] = "recv"
    /\ childOut[1] = ChunkHi
    /\ frames[1] = <<Frame(ChunkHi)>>
    /\ ~wsFailed[1]

\* C28: a detach command that fails takes the handler to the sweep with
\* the registry untouched, and the sweep of a handler whose detach failed
\* is the same compare-and-swap, to the same end: the registry is cleared
\* if it holds the path the handler read, left alone if not, and the
\* handler returns.
C28_DetachFailureNotFatal ==
    [][\A s \in Sessions :
          /\ (supPc[s] = "detach" /\ s \in detachFailed')
                => (supPc'[s] = "sweep" /\ clientTty' = clientTty)
          /\ (supPc[s] = "sweep" /\ supPc'[s] # "sweep" /\ s \in detachFailed)
                => /\ supPc'[s] = "ended"
                   /\ clientTty' = IF clientTty = cleanupTty[s] THEN None ELSE clientTty]_vars
\* The detach for /dev/pts/7 failed and the handler has returned, the
\* registry cleared by its sweep.
C28_Witness ==
    /\ 1 \in detachFailed
    /\ supPc[1] = "ended"
    /\ cleanupTty[1] = Pts7
    /\ sweepSaw[1] = Pts7
    /\ clientTty = None

\* C30: the sender task that, its latch clear, takes from the channel a
\* chunk holding a complete announce of /dev/pts/7 publishes that path to
\* the registry, whatever the other bytes of the chunk are.
C30_AnnounceAmongInvalidBytes ==
    [][\A s \in Sessions :
          (/\ chan[s] # << >>
           /\ chan'[s] = Tail(chan[s])
           /\ ~ttyDetected[s]
           /\ Find(Head(chan[s]), Announce(Pts7)) > 0)
              => clientTty' = Pts7]_vars

\* A chunk with a ]7337; match that is no announce of a pseudo-terminal:
\* no backslash after the match, or a path that does not start with
\* /dev/pts/ before it.
RejectedMatch(b) ==
    LET pos == Find(b, Marker)
    IN  /\ pos > 0
        /\ LET after == From(b, pos + 6)
               end == Find(after, <<BACKSLASH>>)
           IN  end = 0 \/ ~IsPrefix(PtsPrefix, SubSeq(after, 1, end - 1))

\* C31: the sender task that takes a chunk with a rejected match writes
\* neither the registry nor connection_tty and leaves the latch clear; and
\* with the latch clear, whatever was rejected before, the chunk with the
\* announce of /dev/pts/7 is published and then recorded.
C31_RejectedMatchKeepsScanning ==
    [][\A s \in Sessions :
          /\ (chan[s] # << >> /\ chan'[s] = Tail(chan[s]) /\ RejectedMatch(Head(chan[s])))
                => /\ clientTty' = clientTty
                   /\ connTty'[s] = connTty[s]
                   /\ ttyDetected'[s] = ttyDetected[s]
                   /\ pumpPc'[s] \notin {"conn_first", "conn_more"}
          /\ (chan[s] # << >> /\ chan'[s] = Tail(chan[s]) /\ ~ttyDetected[s]
                 /\ Head(chan[s]) = Announce(Pts7))
                => (clientTty' = Pts7 /\ pumpPc'[s] \in {"conn_first", "conn_more"})
          /\ pumpPc[s] \in {"conn_first", "conn_more"} /\ pumpPc'[s] # pumpPc[s]
                => (connTty'[s] = Pts7 /\ ttyDetected'[s])]_vars
\* The child printed the /dev/tty1 announce and then its own: the second
\* is recorded.
C31_Witness ==
    /\ childOut[1] = AnnounceOther \o Announce(Pts7)
    /\ connTty[1] = Pts7 /\ clientTty = Pts7 /\ ttyDetected[1]

\* C32: once the handler's sweep has run, no task of the session writes
\* the registry, and a registry the sweep left empty stays so.
C32_NoPublishAfterSweep ==
    [][\A s \in Solo :
          supPc[s] = "ended" => (regWrites'[s] = regWrites[s] /\ clientTty' = clientTty)]_vars

\* C33: the handler that reads connection_tty as None at its teardown
\* belongs to a session that has written no path to the registry.
C33_PublishAtomicForTeardown ==
    [][\A s \in Solo :
          (supPc[s] = "readtty" /\ supPc'[s] # "readtty" /\ cleanupTty'[s] = None)
              => regWrites[s] = 0]_vars

\* C34: once the reader thread has returned (the child has exited) in a
\* session whose client has sent nothing since the handshake, the
\* receiver task eventually ends, unless the client sends after all.
C34_ChildExitEndsRouter ==
    \A s \in Solo :
        (rpc[s] = "done" /\ lastIn[s].kind = "None")
            ~> (rtPc[s] = "done" \/ lastIn[s].kind # "None")

\* C35: no frame carries more than twice the threshold (65536 bytes in
\* the code: a buffer at the threshold and one full read on top of it),
\* and the buffer never holds more.
C35_FramePayloadBound ==
    \A s \in Sessions :
        /\ Len(buffer[s]) <= 2 * BufScale
        /\ \A i \in 1..Len(frames[s]) : Len(frames[s][i]) - 1 <= 2 * BufScale
\* Three full reads: the first two went out as one frame of twice the
\* threshold.
C35_Witness ==
    /\ nReads[1] = 3
    /\ Len(frames[1]) >= 1
    /\ Len(frames[1][1]) - 1 = 2 * BufScale

\* C36: the PTY has been written exactly the payloads the receiver task
\* took, so nothing of the first message; and while the receiver task has
\* taken no message, nothing is written, the flag is clear and the PTY has
\* the size it was opened with, whatever the first message was.
C36_FirstMessageOnlyHandshake ==
    \A s \in Sessions :
        /\ ptyWritten[s] = inputSeen[s]
        /\ lastIn[s].kind = "None"
              => /\ ptyWritten[s] = << >>
                 /\ ~paused[s]
                 /\ supPc[s] = "running" => ptySize[s] = initSize[s]
\* A session opened by the frame 0x30 "hi" runs at 80 x 24 and has taken
\* a pause since: the PTY has been written nothing.
C36_Witness ==
    /\ firstMsg[1] = InputHi
    /\ supPc[1] = "running" /\ lastIn[1] = PauseMsg
    /\ ptyWritten[1] = << >> /\ paused[1]
    /\ ptySize[1] = <<DefaultCols, DefaultRows>>

\* The thread is at a lock() on a mutex that another holds.
Blocked(t) ==
    /\ NextOp(t).k = "lock"
    /\ owner[LockOf(t, NextOp(t).l)] # NoThread

\* C29: the sender task, the receiver task and the handler hold no mutex
\* when they are at an .await or between two code paths.
C29_NoLockAcrossAwait ==
    \A t \in Threads :
        (t[1] \in {"pump", "router", "sup"} /\ (NextOp(t).k = "await" \/ lockPc[t][1] = 0))
            => Held(t) = {}
\* The sender task is at the await after its two lock blocks and holds
\* nothing, while the handler holds connection_tty and the receiver task
\* is back at its next().await.
C29_Witness ==
    /\ lockPc[<<"pump", 1>>] = <<1, 6>>
    /\ Held(<<"pump", 1>>) = {}
    /\ owner[<<"conn", 1>>] = <<"sup", 1>>
    /\ lockPc[<<"router", 1>>] = <<3, 1>>

\* C37: a thread at a lock() holds no mutex, and the holder of a mutex
\* that a thread waits for is not itself waiting for one: no cycle of
\* waiting threads forms.
C37_NoLockHeldWhileWaiting ==
    \A t \in Threads :
        /\ NextOp(t).k = "lock" => Held(t) = {}
        /\ Blocked(t) => ~Blocked(owner[LockOf(t, NextOp(t).l)])
\* The sender task holds the registry while the handler and a REST
\* handler wait for it, and the reader holds the gate the receiver task
\* waits for.
C37_Witness ==
    /\ owner[<<"registry", 0>>] = <<"pump", 1>>
    /\ Blocked(<<"sup", 1>>)
    /\ Blocked(<<"rest", 0>>)
    /\ owner[<<"gate", 1>>] = <<"reader", 1>>
    /\ Blocked(<<"router", 1>>)

\* C38: a connection writes the registry at most once; the write stores
\* the path its scan found, the write of connection_tty that follows
\* stores that same path, connection_tty is written only then, and once
\* it holds a path it never changes.
C38_PublishOnceSamePath ==
    [][\A s \in Sessions :
          /\ regWrites'[s] <= 1
          /\ regWrites'[s] # regWrites[s]
                => (pumpPc'[s] \in {"conn_first", "conn_more"} /\ clientTty' = ScanTty(cur'[s]))
          /\ (pumpPc[s] \in {"conn_first", "conn_more"} /\ pumpPc'[s] # pumpPc[s])
                => connTty'[s] = ScanTty(cur[s])
          /\ connTty'[s] # connTty[s]
                => (connTty[s] = None /\ regWrites[s] = 1 /\ pumpPc[s] \in {"conn_first", "conn_more"})]_vars
\* The child announced /dev/pts/8 and then /dev/pts/7, the sender task
\* has taken both chunks: one write of the registry, and connection_tty
\* holds /dev/pts/8.
C38_Witness ==
    /\ childOut[1] = Announce(Pts8) \o Announce(Pts7)
    /\ chan[1] = << >> /\ cur[1] = << >>
    /\ Len(Payloads(frames[1])) + Len(buffer[1]) = Len(childOut[1])
    /\ regWrites[1] = 1
    /\ connTty[1] = Pts8
=============================================================================
